---- MODULE Spec2Model ----
(***************************************************************************)
(* State-machine model of backend/load_balancer.py: the reconcile loop     *)
(* update_servers (one thread), the control-plane handlers (one request in *)
(* flight at a time, each handler split at the statements between which    *)
(* the loop thread may run), and the socat listener processes.             *)
(*                                                                         *)
(* Python objects keep their identity: a service dict is an index into     *)
(* svc, its runtime dict the same index into st, and service_state maps a  *)
(* name to such an index (0 = no entry), so that the loop can still hold a  *)
(* service that a handler has renamed or removed.                          *)
(*                                                                         *)
(* Steps.  The loop reads name, listen_port and mode in one step, probes   *)
(* one server per step, takes the decision of lines 214-233 in one step,   *)
(* and then runs one step per statement group that touches service_state   *)
(* or a process.  A missing service_state entry is the KeyError that ends  *)
(* the thread (pc "crashed").                                              *)
(*                                                                         *)
(* Specifications.  Spec is the loop with the listeners and one request.   *)
(* SpecConfig is the control plane alone, with a longer sequence of        *)
(* requests.  SpecStats adds to the loop the output of the listeners and   *)
(* their reader threads (read_socat_output, each "+=" a load and a store), *)
(* SpecPurge a remove_server to that.  SpecBus is the event loop of        *)
(* ConnectionManager: websockets that connect and leave, and broadcasts    *)
(* that advance by one send at a time.                                     *)
(* SpecLive is Spec for a service with one server, with weak fairness of   *)
(* the steps of update_servers: its thread is scheduled whenever it can    *)
(* run.                                                                    *)
(***************************************************************************)
EXTENDS Integers, Sequences, FiniteSets, TLC

\* ---------------------------------------------------------------- constants
CHECK_INTERVAL == 5
ROTATION_INTERVAL == 60

\* ---------------------------------------------------------------- bounds
MaxProcs == 3       \* listener processes started in one run
MaxOps == 1         \* control-plane requests issued in one run
MaxConfigOps == 3   \* the same, in the runs of the control plane alone
MaxReadProcs == 2   \* listener processes started in one run with output
MaxLiveProcs == 2   \* listener processes started in one run of the scheduled loop
MaxLines == 2       \* counted output lines written by the listeners in one run
MaxSockets == 3     \* websockets ever connected in one run
MaxBroadcasts == 2  \* messages handed to the event bus in one run
MaxServices == 2    \* service dicts ever created in one run
MaxServers == 3     \* servers of one service

\* ---------------------------------------------------------------- universe
Names == {"A", "B"}
Ports == {7000, 7001}
Ips == {"1.1.1.1", "2.2.2.2"}
BackendPorts == {80}
CheckTypes == {"tcp", "http", "smpp"}
\* What add_server and edit_server are asked for: a string that is no IP
\* address, the ports around the ends of the range 1..65535.
AnyIps == Ips \cup {"1.1.1"}
AddPorts == {0, 1, 80, 65535, 65536}
NewPorts == {1}
ServerPorts == {1, 80, 65535}
\* The two servers of the initial configuration, and what the loop calls them.
S1 == [ip |-> "1.1.1.1", port |-> 80, check_type |-> "tcp"]
S2 == [ip |-> "2.2.2.2", port |-> 80, check_type |-> "http"]
B1 == "1.1.1.1:80"
B2 == "2.2.2.2:80"
Backends == {B1, B2}
\* How a connection attempt of a probe ends: established (and, for http, answered
\* with status 200), timed out, refused, or failed with another OSError such as
\* "no route to host" or "network is unreachable".
Outcomes == {"connected", "timeout", "refused", "error"}
Modes == {"failover", "round-robin"}
AnyModes == Modes \cup {"random"}
None == "none"
NoProc == 0
NoEntry == 0
NoTime == -1

VARIABLES
    SERVICES,       \* the list SERVICES, as indices into svc
    svc,            \* the service dicts ever created
    st,             \* the runtime dicts ever created (same index as svc)
    service_state,  \* name -> index of its runtime dict, or NoEntry
    procs,          \* every socat process ever started
    loop,           \* the locals and position of update_servers
    req,            \* the locals and position of the request in flight
    ops,            \* requests that the run may still issue
    limits,         \* how many listeners and output lines the run may have
    emitted,        \* messages broadcast during the current tick of a service
    disk,           \* the content of CONFIG_FILE
    prevFirst,      \* history: per runtime dict, first UP backend at its previous decision
    run,            \* history: per runtime dict, the current run of round-robin rotations
    removed,        \* history: the service dicts whose remove_service returned ok
    portEdit,       \* history: the last accepted listen_port edit and its progress
    server_stats,   \* the dict server_stats: key -> counters
    response,       \* history: how the last request ended, "pending" while one runs
    asked,          \* history: the last request, as it came in
    counted,        \* history: per counter, the sum of the lengths counted into it
    written,        \* history: counted output lines written so far
    active_connections, \* ConnectionManager.active_connections
    broadcasts,     \* the broadcast coroutines, each with its position in the list
    websockets,     \* the websockets ever accepted: is the peer there, what was sent
    before          \* history: the service as the edit_service in flight found it

progVars == <<SERVICES, svc, st, service_state, procs, loop, req, ops, limits, emitted,
              disk, server_stats, active_connections, broadcasts, websockets>>
histVars == <<prevFirst, run, removed, portEdit, response, asked, counted, written,
              before>>
busVars == <<active_connections, broadcasts, websockets>>
\* what neither update_servers nor a handler touches
envVars == <<counted, written, limits, busVars, before>>
vars == <<SERVICES, svc, st, service_state, procs, loop, req, ops, emitted, disk,
          prevFirst, run, removed, portEdit, server_stats, response, asked, envVars>>

\* ---------------------------------------------------------------- helpers
Range(s) == {s[i] : i \in 1..Len(s)}

\* A runtime dict as add_service and the module body create it. since_start is
\* the clock of last_start_time, time.time() - last_start_time, kept as far as
\* the code tells values apart: NoTime while last_start_time is None, 0 right
\* after last_start_time = time.time(), CHECK_INTERVAL once time has passed but
\* less than ROTATION_INTERVAL, ROTATION_INTERVAL once that much has passed.
NewState ==
    [last_active |-> None, index |-> 0, process |-> NoProc,
     restart_count |-> 0, since_start |-> NoTime,
     bytes_transferred |-> 0, bytes_out |-> 0, bytes_in |-> 0]

ZeroSums == [bytes_transferred |-> 0, bytes_out |-> 0, bytes_in |-> 0]

\* {"bytes_transferred": 0, "bytes_out": 0, "bytes_in": 0}; gen tells the dicts
\* created under one key apart (0 for the one created first).
ZeroStats(gen) == [bytes_transferred |-> 0, bytes_out |-> 0, bytes_in |-> 0, gen |-> gen]

\* f"{service_name}:{selected_server}"
SelectedKey(name, backend) == name \o ":" \o backend

\* f"{service_name}:{ip}:{port}"
ServerKey(name, ip, port) == name \o ":" \o ip \o ":" \o ToString(port)

\* every key that can come up
AllKeys == {ServerKey(n, ip, port) : n \in Names, ip \in Ips, port \in ServerPorts}

\* if server_key not in server_stats: server_stats[server_key] = {...}
WithKey(stats, key) ==
    IF key \in DOMAIN stats THEN stats
    ELSE [k \in DOMAIN stats \cup {key} |->
             IF k = key THEN ZeroStats(counted.gens[key]) ELSE stats[k]]

\* if server_key in server_stats: del server_stats[server_key]
WithoutKey(stats, key) == [k \in DOMAIN stats \ {key} |-> stats[k]]

\* history of WithKey: one more dict has been created under key, and nothing
\* has been counted into it
Created(stats, key) ==
    IF key \in DOMAIN stats THEN counted
    ELSE [counted EXCEPT !.gens[key] = @ + 1, !.keys[key] = ZeroSums]

\* d seconds pass, d >= CHECK_INTERVAL
Later(s, d) ==
    IF s.since_start = NoTime THEN s
    ELSE [s EXCEPT !.since_start = IF @ + d >= ROTATION_INTERVAL THEN ROTATION_INTERVAL
                                    ELSE CHECK_INTERVAL]

NewRun == [start |-> 0, list |-> <<>>, len |-> 0]

\* proc.poll() is None
Running(p) == p # NoProc /\ procs[p].alive

\* A process whose reader thread has not been started: rd is the position of the
\* thread read_socat_output(name, proc), key its server_key, pipe the counted
\* lines in proc.stdout that it has not read, line the one it is counting, dict
\* and tmp the dict and the value that its current "+=" has loaded.
NewProc(port, to, owner) ==
    [alive |-> TRUE, port |-> port, to |-> to, owner |-> owner,
     rd |-> "none", name |-> None, key |-> None, pipe |-> <<>>, line |-> None,
     dict |-> 0, tmp |-> 0]

DeadProc == [NewProc(0, None, 0) EXCEPT !.alive = FALSE]

\* The reader thread of the process has nothing left to do to a counter.
Drained(pr) == pr.pipe = <<>> /\ pr.rd \in {"none", "start", "idle", "done"}

\* proc.terminate(); proc.wait(): what a dead process listened on is forgotten,
\* and so is its reader thread once it has nothing left to count (it reads the
\* end of the stream and returns).
Killed(ps, p) ==
    [ps EXCEPT ![p] = IF Drained(@) THEN DeadProc
                      ELSE [@ EXCEPT !.alive = FALSE, !.port = 0, !.to = None, !.owner = 0]]

\* Mutant of Snapshot: the servers are not written.
SnapshotWithoutServers(list, dicts) ==
    [i \in 1..Len(list) |-> [dicts[list[i]] EXCEPT !.servers = <<>>]]

\* json.dump({"services": SERVICES})
Snapshot(list, dicts) == [i \in 1..Len(list) |-> dicts[list[i]]]

\* json.load(f), then config.get("services", [])
load_config(file) == file

\* next((s for s in SERVICES if s.get("name") == name), None), 0 for None
FindPos(name) ==
    LET hits == {i \in 1..Len(SERVICES) : svc[SERVICES[i]].name = name}
    IN  IF hits = {} THEN 0 ELSE CHOOSE i \in hits : \A k \in hits : i <= k

Find(name) == IF FindPos(name) = 0 THEN 0 ELSE SERVICES[FindPos(name)]

\* list.remove(x): drop the element at position p
RemoveAt(s, p) == [i \in 1..(Len(s) - 1) |-> IF i < p THEN s[i] ELSE s[i + 1]]

\* the first server with server["ip"] == ip and int(server["port"]) == int(port)
ServerPos(servers, ip, port) ==
    LET hits == {i \in 1..Len(servers) : servers[i].ip = ip /\ servers[i].port = port}
    IN  IF hits = {} THEN 0 ELSE CHOOSE i \in hits : \A k \in hits : i <= k

FirstPos(s, x) ==
    LET hits == {i \in 1..Len(s) : s[i] = x}
    IN  IF hits = {} THEN 0 ELSE CHOOSE i \in hits : \A k \in hits : i <= k

\* f"{ip}:{port}"
Fmt(server) == server.ip \o ":" \o ToString(server.port)

RoutingMsg(port, sel, name, mode) ==
    [kind |-> "Routing", port |-> port, to |-> sel, name |-> name, mode |-> mode]

NoHealthyMsg(port, name) ==
    [kind |-> "NoHealthy", port |-> port, name |-> name]

\* ---------------------------------------------------------------- health checks
\* Each check gives "UP" (True), "DOWN" (False) or "raise" (the exception leaves
\* the function).
\* socket.create_connection; except (socket.timeout, ConnectionRefusedError)
is_server_alive(outcome) ==
    IF outcome = "connected" THEN "UP"
    ELSE IF outcome \in {"timeout", "refused"} THEN "DOWN"
    ELSE "raise"

\* requests.get; except requests.RequestException (every connect or transport
\* error of requests is one)
check_http(outcome) == IF outcome = "connected" THEN "UP" ELSE "DOWN"

\* the same code as is_server_alive
check_smpp(outcome) ==
    IF outcome = "connected" THEN "UP"
    ELSE IF outcome \in {"timeout", "refused"} THEN "DOWN"
    ELSE "raise"

\* The dispatch on check_type of update_servers.
Check(check_type, outcome) ==
    IF check_type = "http" THEN check_http(outcome)
    ELSE IF check_type = "smpp" THEN check_smpp(outcome)
    ELSE is_server_alive(outcome)

\* ---------------------------------------------------------------- selector
\* Mutant of FailoverSelect: the last UP backend instead of the first.
FailoverSelectLast(healthy) == healthy[Len(healthy)]

\* healthy_servers[0]
FailoverSelect(healthy) == healthy[1]

\* Mutant of RoundRobinSelect: the cursor is advanced before it is used.
RoundRobinSelectNext(healthy, idx) == healthy[((idx + 1) % Len(healthy)) + 1]

\* healthy_servers[idx % len(healthy_servers)]
RoundRobinSelect(healthy, idx) == healthy[(idx % Len(healthy)) + 1]

\* now - (last_start_time or 0): with no last_start_time it is time.time() itself
Elapsed(s) == IF s.since_start = NoTime THEN ROTATION_INTERVAL ELSE s.since_start

\* Mutant of RoundRobinSkips: "<=" for "<".
RoundRobinSkipsLate(s) == Running(s.process) /\ Elapsed(s) <= ROTATION_INTERVAL

\* round-robin: "if less than ROTATION_INTERVAL has passed, do nothing"
RoundRobinSkips(s) == Running(s.process) /\ Elapsed(s) < ROTATION_INTERVAL

\* Mutant of FailoverSkips: the "continue" is missing, every tick restarts.
FailoverSkipsNever(s, sel) == FALSE

\* failover: "if selected_server == last_active" and its process is running: continue
FailoverSkips(s, sel) == sel = s.last_active /\ Running(s.process)

\* ---------------------------------------------------------------- initial state
InitLoop ==
    [pc |-> "next", it |-> 1, service |-> 0, name |-> None, port |-> 0,
     mode |-> None, healthy |-> <<>>, j |-> 1, selected |-> None, idx |-> 0,
     proc |-> NoProc, outcome |-> None]

IdleReq ==
    [pc |-> "idle", op |-> None, name |-> None, new_name |-> None, port |-> 0,
     mode |-> None, check_type |-> None, service |-> 0, state |-> 0, pos |-> 0]

\* A request: the endpoint, the service it names and, where it names a server,
\* its ip and port.
Asked(op, name, ip, port) == [op |-> op, name |-> name, ip |-> ip, port |-> port]

\* Nothing has been counted; the module body has created one dict under each
\* key of the initial configuration.
InitCounted(servers) ==
    [gens |-> [k \in AllKeys |->
                 IF k \in {ServerKey("A", x.ip, x.port) : x \in Range(servers)}
                 THEN 1 ELSE 0],
     service |-> [s \in 1..MaxServices |-> ZeroSums],
     keys |-> [k \in AllKeys |-> ZeroSums]]

\* No edit_service is in flight.
NoSnapshot == [service |-> 0, name |-> None, listen_port |-> 0, mode |-> None,
               file |-> <<>>, touched |-> FALSE]

\* The service dict o and CONFIG_FILE as the request finds them; touched turns
\* TRUE when the handler terminates the listener of the service (and then
\* clears its last_active).
Found(o) == [service |-> o, name |-> svc[o].name, listen_port |-> svc[o].listen_port,
             mode |-> svc[o].mode, file |-> disk, touched |-> FALSE]

NoEdit == [phase |-> "none", service |-> 0, old |-> 0, new |-> 0, rc |-> 0]

\* The module body, for a configuration file with one service of one of the
\* modes and with these servers; the run may issue so many requests, start so
\* many listeners and see so many lines of their output.
Boot(modes, servers, requests, listeners, lines) ==
    /\ SERVICES = <<1>>
    /\ \E m \in modes :
          svc = <<[name |-> "A", listen_port |-> 7000, mode |-> m, servers |-> servers]>>
    /\ st = <<NewState>>
    /\ service_state = [n \in Names |-> IF n = "A" THEN 1 ELSE NoEntry]
    /\ procs = <<>>
    /\ loop = InitLoop
    /\ req = IdleReq
    /\ ops = requests
    /\ limits = [listeners |-> listeners, lines |-> lines]
    /\ emitted = <<>>
    /\ disk = Snapshot(SERVICES, svc)
    /\ prevFirst = <<None>>
    /\ run = <<NewRun>>
    /\ removed = {}
    /\ portEdit = NoEdit
    /\ server_stats = [k \in {ServerKey("A", x.ip, x.port) : x \in Range(servers)}
                         |-> ZeroStats(0)]
    /\ response = "none"
    /\ asked = Asked(None, None, None, 0)
    /\ counted = InitCounted(servers)
    /\ written = 0
    /\ active_connections = <<>>
    /\ broadcasts = <<>>
    /\ websockets = <<>>
    /\ before = NoSnapshot

Init == Boot(AnyModes, <<S1, S2>>, MaxOps, MaxProcs, 0)

\* ---------------------------------------------------------------- history
\* portEdit follows the last accepted listen_port edit: "returned" once the
\* handler has returned, "ticking" while the first tick of that service begun
\* after the return is in progress, "ticked" when that tick has finished with
\* at least one UP backend (and until the loop or a handler moves on).
EditTickBegins(o) ==
    IF portEdit.phase = "returned" /\ portEdit.service = o
    THEN [portEdit EXCEPT !.phase = "ticking"]
    ELSE IF portEdit.phase = "ticked" THEN NoEdit ELSE portEdit

EditTickEnds(up) ==
    IF portEdit.phase = "ticking" /\ portEdit.service = loop.service
    THEN [portEdit EXCEPT !.phase = IF up THEN "ticked" ELSE "returned"]
    ELSE portEdit

\* ---------------------------------------------------------------- update_servers
\* Mutant of TornDown: the process is not terminated.
TornDownForgets(p) == procs

\* if proc and proc.poll() is None: proc.terminate(); proc.wait()
TornDown(p) == IF Running(p) THEN Killed(procs, p) ELSE procs

\* Mutant of Outage: a tick without UP backend also resets the cursor.
OutageResets(s) == [s EXCEPT !.last_active = None, !.index = 0]

\* service_state[service_name]["last_active"] = None
Outage(s) == [s EXCEPT !.last_active = None]

\* An uncaught exception ends the thread.
Crash == loop' = [loop EXCEPT !.pc = "crashed", !.outcome = None]

\* "continue", or the end of the loop body: back to the iterator of SERVICES.
\* The locals of the finished tick are dead (each is assigned before its next use).
Continue == loop' = [InitLoop EXCEPT !.it = loop.it]

\* time.sleep(CHECK_INTERVAL) at the end of a pass, then a new iterator over
\* SERVICES. The sleep lasts CHECK_INTERVAL or longer.
Sleep ==
    /\ loop.pc = "sleep"
    /\ \E d \in {CHECK_INTERVAL, ROTATION_INTERVAL} :
          st' = [i \in 1..Len(st) |-> Later(st[i], d)]
    /\ loop' = [loop EXCEPT !.pc = "next", !.it = 1]
    /\ portEdit' = IF portEdit.phase = "ticked" THEN NoEdit ELSE portEdit
    /\ UNCHANGED <<SERVICES, svc, service_state, procs, req, ops, emitted, disk,
                   prevFirst, run, removed>>
    /\ UNCHANGED <<server_stats, response, asked, envVars>>

\* for service in SERVICES: the list iterator, then the reads of name,
\* listen_port and mode and the empty healthy_servers.
NextService ==
    /\ loop.pc = "next"
    /\ IF loop.it <= Len(SERVICES)
       THEN LET o == SERVICES[loop.it] IN
            /\ loop' = [loop EXCEPT !.pc = "probe", !.it = loop.it + 1, !.service = o,
                                    !.name = svc[o].name, !.port = svc[o].listen_port,
                                    !.mode = svc[o].mode, !.healthy = <<>>, !.j = 1,
                                    !.selected = None, !.proc = NoProc]
            /\ emitted' = <<>>
            /\ portEdit' = EditTickBegins(o)
       ELSE /\ loop' = [loop EXCEPT !.pc = "sleep"]
            /\ emitted' = <<>>
            /\ UNCHANGED portEdit
    /\ UNCHANGED <<SERVICES, svc, st, service_state, procs, req, ops, disk,
                   prevFirst, run, removed>>
    /\ UNCHANGED <<server_stats, response, asked, envVars>>

\* for server in service.get("servers", []): one probe. loop.outcome keeps how
\* the connection attempt of the last probe ended, until the next step of the loop.
Probe ==
    /\ loop.pc = "probe"
    /\ loop.j <= Len(svc[loop.service].servers)
    /\ \E outcome \in Outcomes :
          LET server == svc[loop.service].servers[loop.j]
              alive == Check(server.check_type, outcome)
          IN  IF alive = "raise"
              THEN loop' = [loop EXCEPT !.pc = "crashed", !.outcome = outcome]
              ELSE loop' = [loop EXCEPT !.j = loop.j + 1, !.outcome = outcome,
                              !.healthy = IF alive = "UP"
                                          THEN Append(loop.healthy, Fmt(server))
                                          ELSE loop.healthy]
    /\ UNCHANGED <<SERVICES, svc, st, service_state, procs, req, ops, emitted, disk,
                   prevFirst, run, removed, portEdit>>
    /\ UNCHANGED <<server_stats, response, asked, envVars>>

ProbesDone == loop.pc = "probe" /\ loop.j > Len(svc[loop.service].servers)

\* The round-robin branch of "if healthy_servers".
DecideRoundRobin ==
    /\ ProbesDone
    /\ loop.healthy # <<>>
    /\ loop.mode = "round-robin"
    /\ LET s == service_state[loop.name] IN
       IF s = NoEntry
       THEN Crash /\ UNCHANGED <<st, prevFirst, run, portEdit>>
       ELSE /\ prevFirst' = [prevFirst EXCEPT ![s] = loop.healthy[1]]
            /\ IF RoundRobinSkips(st[s])
               THEN /\ Continue
                    /\ portEdit' = EditTickEnds(TRUE)
                    /\ UNCHANGED <<st, run>>
               ELSE LET idx == st[s].index
                        sel == RoundRobinSelect(loop.healthy, idx)
                        cont == run[s].len > 0 /\ run[s].list = loop.healthy
                    IN  /\ Len(procs) < limits.listeners
                        /\ loop' = [loop EXCEPT !.pc = "announce", !.idx = idx,
                                                !.selected = sel, !.outcome = None]
                        /\ st' = [st EXCEPT ![s].index = idx + 1]
                        /\ run' = [run EXCEPT ![s] =
                                     IF cont THEN [@ EXCEPT !.len = @ + 1]
                                     ELSE [start |-> idx, list |-> loop.healthy, len |-> 1]]
                        /\ UNCHANGED portEdit
    /\ UNCHANGED <<SERVICES, svc, service_state, procs, req, ops, emitted, disk, removed>>
    /\ UNCHANGED <<server_stats, response, asked, envVars>>

\* The failover branch (every mode other than round-robin).
DecideFailover ==
    /\ ProbesDone
    /\ loop.healthy # <<>>
    /\ loop.mode # "round-robin"
    /\ LET s == service_state[loop.name]
           sel == FailoverSelect(loop.healthy)
       IN  IF s = NoEntry
           THEN /\ loop' = [loop EXCEPT !.pc = "crashed", !.selected = sel, !.outcome = None]
                /\ UNCHANGED <<prevFirst, run, portEdit>>
           ELSE /\ prevFirst' = [prevFirst EXCEPT ![s] = loop.healthy[1]]
                /\ run' = [run EXCEPT ![s] = NewRun]
                /\ IF FailoverSkips(st[s], sel)
                   THEN /\ Continue
                        /\ portEdit' = EditTickEnds(TRUE)
                   ELSE /\ Len(procs) < limits.listeners
                        /\ loop' = [loop EXCEPT !.pc = "announce", !.selected = sel,
                                                !.outcome = None]
                        /\ UNCHANGED portEdit
    /\ UNCHANGED <<SERVICES, svc, st, service_state, procs, req, ops, emitted, disk,
                   removed>>
    /\ UNCHANGED <<server_stats, response, asked, envVars>>

\* The else branch: the "No healthy servers" broadcast.
DecideNoHealthy ==
    /\ ProbesDone
    /\ loop.healthy = <<>>
    /\ loop' = [loop EXCEPT !.pc = "nh_term", !.outcome = None]
    /\ emitted' = Append(emitted, NoHealthyMsg(loop.port, loop.name))
    /\ UNCHANGED <<SERVICES, svc, st, service_state, procs, req, ops, disk,
                   prevFirst, run, removed, portEdit>>
    /\ UNCHANGED <<server_stats, response, asked, envVars>>

\* current_proc = service_state[service_name]["process"]; terminate; wait
NoHealthyTerminate ==
    /\ loop.pc = "nh_term"
    /\ LET s == service_state[loop.name] IN
       IF s = NoEntry
       THEN Crash /\ UNCHANGED procs
       ELSE /\ loop' = [loop EXCEPT !.pc = "nh_clear"]
            /\ procs' = TornDown(st[s].process)
    /\ UNCHANGED <<SERVICES, svc, st, service_state, req, ops, emitted, disk,
                   prevFirst, run, removed, portEdit>>
    /\ UNCHANGED <<server_stats, response, asked, envVars>>

\* service_state[service_name]["last_active"] = None
NoHealthyClear ==
    /\ loop.pc = "nh_clear"
    /\ LET s == service_state[loop.name] IN
       IF s = NoEntry
       THEN Crash /\ UNCHANGED <<st, prevFirst, portEdit>>
       ELSE /\ Continue
            /\ st' = [st EXCEPT ![s] = Outage(@)]
            /\ prevFirst' = [prevFirst EXCEPT ![s] = None]
            /\ portEdit' = EditTickEnds(FALSE)
    /\ UNCHANGED <<SERVICES, svc, service_state, procs, req, ops, emitted, disk,
                   run, removed>>
    /\ UNCHANGED <<server_stats, response, asked, envVars>>

\* The "Routing traffic" broadcast, restart_count += 1, last_start_time = now.
Announce ==
    /\ loop.pc = "announce"
    /\ emitted' = Append(emitted, RoutingMsg(loop.port, loop.selected, loop.name, loop.mode))
    /\ LET s == service_state[loop.name] IN
       IF s = NoEntry
       THEN Crash /\ UNCHANGED st
       ELSE /\ loop' = [loop EXCEPT !.pc = "term"]
            /\ st' = [st EXCEPT ![s].restart_count = @ + 1, ![s].since_start = 0]
    /\ UNCHANGED <<SERVICES, svc, service_state, procs, req, ops, disk,
                   prevFirst, run, removed, portEdit>>
    /\ UNCHANGED <<server_stats, response, asked, envVars>>

\* prev_proc = service_state[service_name]["process"]; terminate; wait
TerminatePrevious ==
    /\ loop.pc = "term"
    /\ LET s == service_state[loop.name] IN
       IF s = NoEntry
       THEN Crash /\ UNCHANGED procs
       ELSE /\ loop' = [loop EXCEPT !.pc = "popen"]
            /\ procs' = TornDown(st[s].process)
    /\ UNCHANGED <<SERVICES, svc, st, service_state, req, ops, emitted, disk,
                   prevFirst, run, removed, portEdit>>
    /\ UNCHANGED <<server_stats, response, asked, envVars>>

\* proc = subprocess.Popen(["socat", "-v", "TCP-LISTEN:{listen_port},...", "TCP:{selected}"])
StartListener ==
    /\ loop.pc = "popen"
    /\ procs' = Append(procs, NewProc(loop.port, loop.selected, loop.service))
    /\ loop' = [loop EXCEPT !.pc = "assign", !.proc = Len(procs) + 1]
    /\ UNCHANGED <<SERVICES, svc, st, service_state, req, ops, emitted, disk,
                   prevFirst, run, removed, portEdit>>
    /\ UNCHANGED <<server_stats, response, asked, envVars>>

\* service_state[service_name]["process"] = proc
AssignProcess ==
    /\ loop.pc = "assign"
    /\ LET s == service_state[loop.name] IN
       IF s = NoEntry
       THEN Crash /\ UNCHANGED st
       ELSE /\ loop' = [loop EXCEPT !.pc = "active"]
            /\ st' = [st EXCEPT ![s].process = loop.proc]
    /\ UNCHANGED <<SERVICES, svc, service_state, procs, req, ops, emitted, disk,
                   prevFirst, run, removed, portEdit>>
    /\ UNCHANGED <<server_stats, response, asked, envVars>>

\* threading.Thread(target=read_socat_output, args=(service_name, proc)).start()
Started(ps, p, name) ==
    IF ps[p] = DeadProc THEN ps ELSE [ps EXCEPT ![p].rd = "start", ![p].name = name]

\* service_state[service_name]["last_active"] = selected_server, the entry of
\* server_stats for that backend, and the start of the reader thread.
SetLastActive ==
    /\ loop.pc = "active"
    /\ LET s == service_state[loop.name]
           key == SelectedKey(loop.name, loop.selected)
       IN  IF s = NoEntry
           THEN Crash /\ UNCHANGED <<st, portEdit, server_stats, procs, counted>>
           ELSE /\ Continue
                /\ st' = [st EXCEPT ![s].last_active = loop.selected]
                /\ portEdit' = EditTickEnds(TRUE)
                /\ server_stats' = WithKey(server_stats, key)
                /\ counted' = Created(server_stats, key)
                /\ procs' = Started(procs, loop.proc, loop.name)
    /\ UNCHANGED <<SERVICES, svc, service_state, req, ops, emitted, disk,
                   prevFirst, run, removed>>
    /\ UNCHANGED <<response, asked, written, limits, busVars, before>>

\* A socat process ends on its own (its bind fails, it is killed, it crashes).
ListenerExits ==
    /\ \E p \in 1..Len(procs) :
          /\ procs[p].alive
          /\ procs' = Killed(procs, p)
    /\ UNCHANGED <<SERVICES, svc, st, service_state, loop, req, ops, emitted, disk,
                   prevFirst, run, removed, portEdit>>
    /\ UNCHANGED <<server_stats, response, asked, envVars>>

LoopStep ==
    \/ Sleep
    \/ NextService
    \/ Probe
    \/ DecideRoundRobin
    \/ DecideFailover
    \/ DecideNoHealthy
    \/ NoHealthyTerminate
    \/ NoHealthyClear
    \/ Announce
    \/ TerminatePrevious
    \/ StartListener
    \/ AssignProcess
    \/ SetLastActive

\* ---------------------------------------------------------------- read_socat_output
\* The lines of socat -v that carry "length=": the length, and "> " (outbound),
\* "< " (inbound) or neither of the two markers.
Lengths == {1}
Lines == [n : Lengths, dir : {">", "<", "-"}]

\* What every action of a reader thread and of a listener's output leaves alone.
readerFrame == <<SERVICES, svc, service_state, loop, req, ops, emitted, disk,
                 prevFirst, run, removed, portEdit, response, asked, limits, busVars,
                 before>>

\* A thread that has returned or died keeps nothing; what is left in the pipe
\* of its process is never read.
Ended(pr) == [pr EXCEPT !.rd = "done", !.key = None, !.pipe = <<>>, !.line = None,
                        !.dict = 0, !.tmp = 0]

\* Back in proc.stdout.readline(): at the end of the stream of a dead process
\* the thread returns.
Waiting(pr) ==
    LET w == [pr EXCEPT !.rd = "idle", !.line = None, !.dict = 0, !.tmp = 0]
    IN  IF ~w.alive /\ Drained(w) THEN DeadProc ELSE w

\* The counter that the statement at this position of the thread adds to.
Counter(rd) ==
    IF rd \in {"t_load", "t_store", "kt_load", "kt_store"} THEN "bytes_transferred"
    ELSE IF rd \in {"o_load", "o_store", "ko_load", "ko_store"} THEN "bytes_out"
    ELSE "bytes_in"

\* if "> " in line: ... elif "< " in line: ...
Marked(line, out, in, neither) ==
    IF line.dir = ">" THEN out ELSE IF line.dir = "<" THEN in ELSE neither

\* A listener writes a counted line to its stdout.
SocatWrites ==
    /\ written < limits.lines
    /\ written' = written + 1
    /\ \E p \in 1..Len(procs), line \in Lines :
          /\ procs[p].alive
          /\ procs[p].rd # "done"
          /\ procs' = [procs EXCEPT ![p].pipe = Append(@, line)]
    /\ UNCHANGED <<st, server_stats, counted>>
    /\ UNCHANGED readerFrame

\* active_server = service_state[service_name]["last_active"]; server_key
ReaderStart ==
    /\ \E p \in 1..Len(procs) :
          LET pr == procs[p]
              s == service_state[pr.name]
          IN  /\ pr.rd = "start"
              /\ procs' = [procs EXCEPT ![p] =
                    IF s = NoEntry THEN Ended(pr)
                    ELSE [pr EXCEPT !.rd = "idle",
                                    !.key = IF st[s].last_active = None THEN None
                                            ELSE SelectedKey(pr.name, st[s].last_active)]]
    /\ UNCHANGED <<st, server_stats, counted, written>>
    /\ UNCHANGED readerFrame

\* line = proc.stdout.readline(), a line with "length=(\d+)"
ReaderReadLine ==
    /\ \E p \in 1..Len(procs) :
          /\ procs[p].rd = "idle"
          /\ procs[p].pipe # <<>>
          /\ procs' = [procs EXCEPT ![p].rd = "t_load", ![p].line = Head(procs[p].pipe),
                                     ![p].pipe = Tail(procs[p].pipe)]
    /\ UNCHANGED <<st, server_stats, counted, written>>
    /\ UNCHANGED readerFrame

\* service_state[service_name][counter] += bytes_count, first half: the dict
\* and its value are loaded
ReaderLoad ==
    /\ \E p \in 1..Len(procs) :
          LET pr == procs[p]
              s == service_state[pr.name]
          IN  /\ pr.rd \in {"t_load", "o_load", "i_load"}
              /\ procs' = [procs EXCEPT ![p] =
                    IF s = NoEntry THEN Ended(pr)
                    ELSE [pr EXCEPT !.dict = s, !.tmp = st[s][Counter(pr.rd)],
                                    !.rd = IF pr.rd = "t_load" THEN "t_store"
                                           ELSE IF pr.rd = "o_load" THEN "o_store"
                                           ELSE "i_store"]]
    /\ UNCHANGED <<st, server_stats, counted, written>>
    /\ UNCHANGED readerFrame

\* second half: the sum is stored into the dict that was loaded
ReaderStore ==
    /\ \E p \in 1..Len(procs) :
          LET pr == procs[p]
              c == Counter(pr.rd)
          IN  /\ pr.rd \in {"t_store", "o_store", "i_store"}
              /\ st' = [st EXCEPT ![pr.dict][c] = pr.tmp + pr.line.n]
              /\ counted' = [counted EXCEPT !.service[pr.dict][c] = @ + pr.line.n]
              /\ procs' = [procs EXCEPT ![p].dict = 0, ![p].tmp = 0,
                              ![p].rd = IF pr.rd = "t_store"
                                        THEN Marked(pr.line, "o_load", "i_load", "k_check")
                                        ELSE "k_check"]
    /\ UNCHANGED <<server_stats, written>>
    /\ UNCHANGED readerFrame

\* if server_key: if server_key not in server_stats: server_stats[server_key] = {...}
ReaderKey ==
    /\ \E p \in 1..Len(procs) :
          LET pr == procs[p] IN
          /\ pr.rd = "k_check"
          /\ IF pr.key = None
             THEN /\ procs' = [procs EXCEPT ![p] = Waiting(pr)]
                  /\ UNCHANGED <<server_stats, counted>>
             ELSE /\ procs' = [procs EXCEPT ![p].rd = "kt_load"]
                  /\ server_stats' = WithKey(server_stats, pr.key)
                  /\ counted' = Created(server_stats, pr.key)
    /\ UNCHANGED <<st, written>>
    /\ UNCHANGED readerFrame

\* server_stats[server_key][counter] += bytes_count, first half
ReaderKeyLoad ==
    /\ \E p \in 1..Len(procs) :
          LET pr == procs[p] IN
          /\ pr.rd \in {"kt_load", "ko_load", "ki_load"}
          /\ procs' = [procs EXCEPT ![p] =
                IF pr.key \notin DOMAIN server_stats THEN Ended(pr)
                ELSE [pr EXCEPT !.dict = server_stats[pr.key].gen,
                                !.tmp = server_stats[pr.key][Counter(pr.rd)],
                                !.rd = IF pr.rd = "kt_load" THEN "kt_store"
                                       ELSE IF pr.rd = "ko_load" THEN "ko_store"
                                       ELSE "ki_store"]]
    /\ UNCHANGED <<st, server_stats, counted, written>>
    /\ UNCHANGED readerFrame

\* second half: the sum is stored into the dict that was loaded, which is no
\* longer in server_stats if its key has been deleted (or deleted and set
\* again) since
ReaderKeyStore ==
    /\ \E p \in 1..Len(procs) :
          LET pr == procs[p]
              c == Counter(pr.rd)
              there == pr.key \in DOMAIN server_stats /\ server_stats[pr.key].gen = pr.dict
              next == IF pr.rd = "kt_store"
                      THEN Marked(pr.line, "ko_load", "ki_load", "idle") ELSE "idle"
          IN  /\ pr.rd \in {"kt_store", "ko_store", "ki_store"}
              /\ server_stats' = IF there
                                  THEN [server_stats EXCEPT ![pr.key][c] = pr.tmp + pr.line.n]
                                  ELSE server_stats
              /\ counted' = IF there
                             THEN [counted EXCEPT !.keys[pr.key][c] = @ + pr.line.n]
                             ELSE counted
              /\ procs' = [procs EXCEPT ![p] =
                    IF next = "idle" THEN Waiting(pr)
                    ELSE [pr EXCEPT !.rd = next, !.dict = 0, !.tmp = 0]]
    /\ UNCHANGED <<st, written>>
    /\ UNCHANGED readerFrame

\* ---------------------------------------------------------------- ConnectionManager
\* What the coroutines of the event loop leave alone.
busFrame == <<SERVICES, svc, st, service_state, procs, loop, req, ops, emitted, disk,
              prevFirst, run, removed, portEdit, server_stats, response, asked,
              counted, written, limits, before>>

\* websocket_endpoint up to manager.connect: accept(), then append
Connect ==
    /\ Len(websockets) < MaxSockets
    /\ websockets' = Append(websockets, [open |-> TRUE, msgs |-> <<>>])
    /\ active_connections' = Append(active_connections, Len(websockets) + 1)
    /\ UNCHANGED broadcasts
    /\ UNCHANGED busFrame

\* The peer of a websocket goes away; send_text raises from now on, and the
\* receive_text of websocket_endpoint will raise WebSocketDisconnect.
PeerLeaves ==
    /\ \E w \in 1..Len(websockets) :
          /\ websockets[w].open
          /\ websockets' = [websockets EXCEPT ![w].open = FALSE]
    /\ UNCHANGED <<active_connections, broadcasts>>
    /\ UNCHANGED busFrame

\* except WebSocketDisconnect: manager.disconnect(websocket)
Disconnect ==
    /\ \E w \in Range(active_connections) :
          /\ ~websockets[w].open
          /\ active_connections' = RemoveAt(active_connections, FirstPos(active_connections, w))
    /\ UNCHANGED <<broadcasts, websockets>>
    /\ UNCHANGED busFrame

\* manager.broadcast(message) is scheduled and creates its list iterator. The
\* message is the number of the broadcast; start is history, the list then.
BroadcastBegin ==
    /\ Len(broadcasts) < MaxBroadcasts
    /\ broadcasts' = Append(broadcasts, [i |-> 1, done |-> FALSE,
                                         start |-> Range(active_connections)])
    /\ UNCHANGED <<active_connections, websockets>>
    /\ UNCHANGED busFrame

\* One turn of "for connection in self.active_connections": the iterator gives
\* the element at its index of the list as it is now, and send_text succeeds or
\* raises (the exception is printed).
BroadcastSend ==
    /\ \E b \in 1..Len(broadcasts) :
          LET c == active_connections[broadcasts[b].i] IN
          /\ ~broadcasts[b].done
          /\ broadcasts[b].i <= Len(active_connections)
          /\ broadcasts' = [broadcasts EXCEPT ![b].i = @ + 1]
          /\ websockets' = IF websockets[c].open
                            THEN [websockets EXCEPT ![c].msgs = Append(@, b)]
                            ELSE websockets
    /\ UNCHANGED active_connections
    /\ UNCHANGED busFrame

\* The iterator is exhausted: its index is not below the length of the list.
BroadcastEnd ==
    /\ \E b \in 1..Len(broadcasts) :
          /\ ~broadcasts[b].done
          /\ broadcasts[b].i > Len(active_connections)
          /\ broadcasts' = [broadcasts EXCEPT ![b].done = TRUE]
    /\ UNCHANGED <<active_connections, websockets>>
    /\ UNCHANGED busFrame

\* ---------------------------------------------------------------- control plane
\* A handler returns: "ok", or the HTTPException or uncaught KeyError it raised.
Return(r) == req' = IdleReq /\ response' = r

\* A handler goes on with its next statement.
Goto(r) == req' = r /\ response' = "pending"

\* A request is taken from the budget of the run.
Accept == req.pc = "idle" /\ ops > 0 /\ ops' = ops - 1

NameTaken(name) == \E i \in 1..Len(SERVICES) : svc[SERVICES[i]].name = name

\* edit_service, from the lookup of the service to service["name"] = req.new_name
AfterLookup(r) ==
    IF r.port # 0 THEN "edit_port" ELSE "edit_finish"

EditBegin ==
    /\ Accept
    /\ \E name \in Names, new_name \in Names \cup {None}, port \in Ports \cup {0},
          mode \in Modes \cup {"bogus", None} :
          /\ asked' = Asked("edit_service", name, None, 0)
          /\ LET o == Find(name)
                 r == [IdleReq EXCEPT !.op = "edit_service", !.name = name,
                                      !.new_name = new_name, !.port = port, !.mode = mode,
                                      !.service = o]
             IN  IF o = 0
                 THEN Return("NotFound") /\ UNCHANGED <<svc, before>>
                 ELSE IF new_name # None
                      THEN IF NameTaken(new_name)
                           THEN Return("Conflict") /\ UNCHANGED <<svc, before>>
                           ELSE /\ svc' = [svc EXCEPT ![o].name = new_name]
                                /\ Goto([r EXCEPT !.pc = "edit_move"])
                                /\ before' = Found(o)
                      ELSE /\ Goto([r EXCEPT !.pc = AfterLookup(r), !.name = None])
                           /\ before' = Found(o)
                           /\ UNCHANGED svc
    /\ UNCHANGED <<SERVICES, st, service_state, procs, loop, emitted, disk,
                   prevFirst, run, removed, portEdit, server_stats>>
    /\ UNCHANGED <<counted, written, limits, busVars>>

\* service_state[req.new_name] = service_state.pop(old_name)
EditMoveState ==
    /\ req.pc = "edit_move"
    /\ IF service_state[req.name] = NoEntry
       THEN Return("KeyError") /\ before' = NoSnapshot /\ UNCHANGED service_state
       ELSE /\ service_state' = [service_state EXCEPT ![req.name] = NoEntry,
                                                      ![req.new_name] = service_state[req.name]]
            /\ Goto([req EXCEPT !.pc = AfterLookup(req), !.name = None, !.new_name = None])
            /\ UNCHANGED before
    /\ UNCHANGED <<SERVICES, svc, st, procs, loop, ops, emitted, disk,
                   prevFirst, run, removed, portEdit, server_stats>>
    /\ UNCHANGED <<asked, counted, written, limits, busVars>>

\* service["listen_port"] = req.listen_port; state = service_state[service.get("name")]
EditPort ==
    /\ req.pc = "edit_port"
    /\ LET o == req.service
           s == service_state[svc[o].name]
       IN  /\ svc' = [svc EXCEPT ![o].listen_port = req.port]
           /\ IF s = NoEntry
              THEN Return("KeyError") /\ before' = NoSnapshot /\ UNCHANGED portEdit
              ELSE /\ Goto([req EXCEPT !.pc = "edit_term", !.state = s, !.port = 0])
                   /\ UNCHANGED before
                   /\ portEdit' = IF svc[o].listen_port # req.port
                                  THEN [phase |-> "pending", service |-> o,
                                        old |-> svc[o].listen_port, new |-> req.port,
                                        rc |-> st[s].restart_count]
                                  ELSE NoEdit
    /\ UNCHANGED <<SERVICES, st, service_state, procs, loop, ops, emitted, disk,
                   prevFirst, run, removed, server_stats>>
    /\ UNCHANGED <<asked, counted, written, limits, busVars>>

\* if state["process"] and state["process"].poll() is None: terminate(); wait()
EditTerminate ==
    /\ req.pc = "edit_term"
    /\ IF Running(st[req.state].process)
       THEN /\ procs' = Killed(procs, st[req.state].process)
            /\ Goto([req EXCEPT !.pc = "edit_clear"])
            /\ before' = [before EXCEPT !.touched = TRUE]
       ELSE /\ Goto([req EXCEPT !.pc = "edit_finish"])
            /\ UNCHANGED <<procs, before>>
    /\ UNCHANGED <<SERVICES, svc, st, service_state, loop, ops, emitted, disk,
                   prevFirst, run, removed, portEdit, server_stats>>
    /\ UNCHANGED <<asked, counted, written, limits, busVars>>

\* state["last_active"] = None
EditClear ==
    /\ req.pc = "edit_clear"
    /\ st' = [st EXCEPT ![req.state].last_active = None]
    /\ Goto([req EXCEPT !.pc = "edit_finish"])
    /\ UNCHANGED <<SERVICES, svc, service_state, procs, loop, ops, emitted, disk,
                   prevFirst, run, removed, portEdit, server_stats, envVars>>
    /\ UNCHANGED asked

\* The check and the assignment of the mode, save_config() and the response.
EditFinish ==
    /\ req.pc = "edit_finish"
    /\ IF req.mode # None /\ req.mode \notin Modes
       THEN /\ portEdit' = IF portEdit.phase = "pending" THEN NoEdit ELSE portEdit
            /\ Return("Invalid")
            /\ UNCHANGED <<svc, disk>>
       ELSE /\ svc' = IF req.mode # None THEN [svc EXCEPT ![req.service].mode = req.mode]
                      ELSE svc
            /\ disk' = Snapshot(SERVICES, svc')
            /\ portEdit' = IF portEdit.phase = "pending"
                           THEN [portEdit EXCEPT !.phase = "returned"] ELSE portEdit
            /\ Return("ok")
    /\ before' = NoSnapshot
    /\ UNCHANGED <<SERVICES, st, service_state, procs, loop, ops, emitted,
                   prevFirst, run, removed, server_stats>>
    /\ UNCHANGED <<asked, counted, written, limits, busVars>>

\* remove_service, from the lookup to the termination of the listener
RemoveBegin ==
    /\ Accept
    /\ \E name \in Names :
          /\ asked' = Asked("remove_service", name, None, 0)
          /\ LET o == Find(name)
                 s == service_state[name]
             IN  IF o = 0
                 THEN Return("NotFound") /\ UNCHANGED procs
                 ELSE /\ Goto([IdleReq EXCEPT !.pc = "rm_list", !.op = "remove_service",
                                              !.name = name, !.service = o, !.state = s])
                      /\ procs' = IF s # NoEntry /\ Running(st[s].process)
                                  THEN Killed(procs, st[s].process) ELSE procs
    /\ UNCHANGED <<SERVICES, svc, st, service_state, loop, emitted, disk,
                   prevFirst, run, removed, portEdit, server_stats, envVars>>

\* SERVICES.remove(service)
RemoveFromList ==
    /\ req.pc = "rm_list"
    /\ SERVICES' = RemoveAt(SERVICES, FirstPos(SERVICES, req.service))
    /\ Goto([req EXCEPT !.pc = "rm_state"])
    /\ UNCHANGED <<svc, st, service_state, procs, loop, ops, emitted, disk,
                   prevFirst, run, removed, portEdit, server_stats, envVars>>
    /\ UNCHANGED asked

\* if req.name in service_state: del service_state[req.name]; save_config()
RemoveFinish ==
    /\ req.pc = "rm_state"
    /\ service_state' = [service_state EXCEPT ![req.name] = NoEntry]
    /\ disk' = Snapshot(SERVICES, svc)
    /\ removed' = removed \cup {req.service}
    /\ portEdit' = IF portEdit.service = req.service THEN NoEdit ELSE portEdit
    /\ Return("ok")
    /\ UNCHANGED <<SERVICES, svc, st, procs, loop, ops, emitted, prevFirst, run,
                   server_stats, envVars>>
    /\ UNCHANGED asked

\* add_service, up to SERVICES.append(new_service). A listen_port of 0 is the
\* "not listen_port" of the first check.
AddBegin ==
    /\ Accept
    /\ \E name \in Names, port \in Ports \cup {0}, mode \in AnyModes :
          /\ asked' = Asked("add_service", name, None, 0)
          /\ IF port = 0
             THEN Return("Invalid") /\ UNCHANGED <<SERVICES, svc, st, prevFirst, run>>
             ELSE IF NameTaken(name)
             THEN Return("Conflict") /\ UNCHANGED <<SERVICES, svc, st, prevFirst, run>>
             ELSE /\ Len(svc) < MaxServices
                  /\ svc' = Append(svc, [name |-> name, listen_port |-> port, mode |-> mode,
                                         servers |-> <<>>])
                  /\ st' = Append(st, NewState)
                  /\ prevFirst' = Append(prevFirst, None)
                  /\ run' = Append(run, NewRun)
                  /\ SERVICES' = Append(SERVICES, Len(svc) + 1)
                  /\ Goto([IdleReq EXCEPT !.pc = "add_state", !.op = "add_service",
                                          !.name = name, !.service = Len(svc) + 1])
    /\ UNCHANGED <<service_state, procs, loop, emitted, disk, removed, portEdit,
                   server_stats, envVars>>

\* service_state[name] = {...}; save_config()
AddFinish ==
    /\ req.pc = "add_state"
    /\ service_state' = [service_state EXCEPT ![req.name] = req.service]
    /\ disk' = Snapshot(SERVICES, svc)
    /\ Return("ok")
    /\ UNCHANGED <<SERVICES, svc, st, procs, loop, ops, emitted,
                   prevFirst, run, removed, portEdit, server_stats, envVars>>
    /\ UNCHANGED asked

\* remove_server
RemoveServer ==
    /\ Accept
    /\ \E name \in Names, ip \in Ips, port \in BackendPorts :
          /\ asked' = Asked("remove_server", name, ip, port)
          /\ LET o == Find(name)
                 key == ServerKey(name, ip, port)
             IN  IF o = 0 \/ ServerPos(svc[o].servers, ip, port) = 0
                 THEN Return("NotFound") /\ UNCHANGED <<svc, disk, server_stats>>
                 ELSE /\ svc' = [svc EXCEPT ![o].servers = RemoveAt(@, ServerPos(@, ip, port))]
                      /\ server_stats' = WithoutKey(server_stats, key)
                      /\ disk' = Snapshot(SERVICES, svc')
                      /\ Return("ok")
    /\ UNCHANGED <<SERVICES, st, service_state, procs, loop, emitted,
                   prevFirst, run, removed, portEdit, envVars>>

\* ipaddress.ip_address(ip) does not raise ValueError: of the strings a request
\* carries here, the two dotted quads.
ip_address(ip) == ip \in {"1.1.1.1", "2.2.2.2"}

\* Mutant of PortInRange: the upper end is left out.
PortBelowRange(port) == 1 <= port /\ port < 65535

\* 1 <= port <= 65535
PortInRange(port) == 1 <= port /\ port <= 65535

\* add_server. (http_path, which no step of the model reads, is left out of the
\* server dict.)
AddServer ==
    /\ Accept
    /\ \E name \in Names, ip \in AnyIps, port \in AddPorts, check_type \in {"tcp", "http"} :
          /\ asked' = Asked("add_server", name, ip, port)
          /\ LET o == Find(name)
                 key == ServerKey(name, ip, port)
             IN  IF o = 0
                 THEN Return("NotFound") /\ UNCHANGED <<svc, disk, server_stats, counted>>
                 ELSE IF ~ip_address(ip) \/ ~PortInRange(port)
                 THEN Return("Invalid") /\ UNCHANGED <<svc, disk, server_stats, counted>>
                 ELSE IF ServerPos(svc[o].servers, ip, port) # 0
                 THEN Return("Conflict") /\ UNCHANGED <<svc, disk, server_stats, counted>>
                 ELSE /\ Len(svc[o].servers) < MaxServers
                      /\ svc' = [svc EXCEPT ![o].servers =
                                   Append(@, [ip |-> ip, port |-> port, check_type |-> check_type])]
                      /\ server_stats' = WithKey(server_stats, key)
                      /\ counted' = Created(server_stats, key)
                      /\ disk' = Snapshot(SERVICES, svc')
                      /\ Return("ok")
    /\ UNCHANGED <<SERVICES, st, service_state, procs, loop, emitted,
                   prevFirst, run, removed, portEdit, written, limits, busVars, before>>

\* edit_server, from the lookup of the service and of the server to
\* server["ip"] = new_ip. A new_port of 0 is "not new_port".
EditServerBegin ==
    /\ Accept
    /\ \E name \in Names, ip \in Ips, port \in BackendPorts, new_ip \in Ips \cup {None},
          new_port \in NewPorts \cup {0}, check_type \in {"smpp", None} :
          /\ asked' = Asked("edit_server", name, ip, port)
          /\ LET o == Find(name)
                 pos == IF o = 0 THEN 0 ELSE ServerPos(svc[o].servers, ip, port)
             IN  IF pos = 0
                 THEN Return("NotFound") /\ UNCHANGED svc
                 ELSE /\ svc' = IF new_ip # None THEN [svc EXCEPT ![o].servers[pos].ip = new_ip]
                                ELSE svc
                      /\ Goto([IdleReq EXCEPT !.pc = IF new_port # 0 THEN "es_port" ELSE "es_finish",
                                              !.op = "edit_server", !.service = o, !.pos = pos,
                                              !.port = new_port, !.check_type = check_type])
    /\ UNCHANGED <<SERVICES, st, service_state, procs, loop, emitted, disk,
                   prevFirst, run, removed, portEdit, server_stats, envVars>>

\* server["port"] = int(new_port)
EditServerPort ==
    /\ req.pc = "es_port"
    /\ svc' = [svc EXCEPT ![req.service].servers[req.pos].port = req.port]
    /\ Goto([req EXCEPT !.pc = "es_finish", !.port = 0])
    /\ UNCHANGED <<SERVICES, st, service_state, procs, loop, ops, emitted, disk,
                   prevFirst, run, removed, portEdit, server_stats, envVars>>
    /\ UNCHANGED asked

\* server["check_type"] = check_type; save_config()
EditServerFinish ==
    /\ req.pc = "es_finish"
    /\ svc' = IF req.check_type # None
              THEN [svc EXCEPT ![req.service].servers[req.pos].check_type = req.check_type]
              ELSE svc
    /\ disk' = Snapshot(SERVICES, svc')
    /\ Return("ok")
    /\ UNCHANGED <<SERVICES, st, service_state, procs, loop, ops, emitted,
                   prevFirst, run, removed, portEdit, server_stats, envVars>>
    /\ UNCHANGED asked

\* set_service_mode; the pattern of SetServiceModeRequest.mode rejects every
\* other mode before the handler runs.
SetServiceMode ==
    /\ Accept
    /\ \E name \in Names, mode \in AnyModes :
          /\ asked' = Asked("set_service_mode", name, None, 0)
          /\ LET o == Find(name) IN
             IF mode \notin Modes
             THEN Return("Invalid") /\ UNCHANGED <<svc, disk>>
             ELSE IF o = 0
             THEN Return("NotFound") /\ UNCHANGED <<svc, disk>>
             ELSE /\ svc' = [svc EXCEPT ![o].mode = mode]
                  /\ disk' = Snapshot(SERVICES, svc')
                  /\ Return("ok")
    /\ UNCHANGED <<SERVICES, st, service_state, procs, loop, emitted,
                   prevFirst, run, removed, portEdit, server_stats, envVars>>

Handler ==
    \/ EditBegin
    \/ EditMoveState
    \/ EditPort
    \/ EditTerminate
    \/ EditClear
    \/ EditFinish
    \/ RemoveBegin
    \/ RemoveFromList
    \/ RemoveFinish
    \/ AddBegin
    \/ AddFinish
    \/ RemoveServer
    \/ AddServer
    \/ EditServerBegin
    \/ EditServerPort
    \/ EditServerFinish
    \/ SetServiceMode

Next == LoopStep \/ ListenerExits \/ Handler

Spec == Init /\ [][Next]_vars

\* The control plane alone: the requests of a longer run, none of them
\* overlapping a tick. No listener runs there, so that edit_service never has
\* one to terminate.
NextConfig ==
    \/ EditBegin
    \/ EditMoveState
    \/ EditPort
    \/ EditTerminate
    \/ EditFinish
    \/ RemoveBegin
    \/ RemoveFromList
    \/ RemoveFinish
    \/ AddBegin
    \/ AddFinish
    \/ RemoveServer
    \/ AddServer
    \/ EditServerBegin
    \/ EditServerPort
    \/ EditServerFinish
    \/ SetServiceMode

SpecConfig == Boot(AnyModes, <<S1, S2>>, MaxConfigOps, 0, 0) /\ [][NextConfig]_vars

\* update_servers for a service that is in round-robin mode.
RoundRobinStep ==
    \/ Sleep
    \/ NextService
    \/ Probe
    \/ DecideRoundRobin
    \/ DecideNoHealthy
    \/ NoHealthyTerminate
    \/ NoHealthyClear
    \/ Announce
    \/ TerminatePrevious
    \/ StartListener
    \/ AssignProcess
    \/ SetLastActive

\* A step of a reader thread.
ReaderStep ==
    \/ ReaderStart
    \/ ReaderReadLine
    \/ ReaderLoad
    \/ ReaderStore
    \/ ReaderKey
    \/ ReaderKeyLoad
    \/ ReaderKeyStore

\* The loop and the listeners of a round-robin service with their output and
\* their reader threads; no request.
NextStats == RoundRobinStep \/ ListenerExits \/ SocatWrites \/ ReaderStep

SpecStats == Boot({"round-robin"}, <<S1>>, 0, MaxReadProcs, MaxLines) /\ [][NextStats]_vars

\* The event loop: the websocket endpoints and the broadcasts handed to it.
NextBus ==
    \/ Connect
    \/ PeerLeaves
    \/ Disconnect
    \/ BroadcastBegin
    \/ BroadcastSend
    \/ BroadcastEnd

SpecBus == Boot({"failover"}, <<S1, S2>>, 0, 0, 0) /\ [][NextBus]_vars

\* The same with one line of output and one remove_server.
NextPurge == NextStats \/ RemoveServer

SpecPurge == Boot({"round-robin"}, <<S1>>, MaxOps, MaxReadProcs, 1) /\ [][NextPurge]_vars

\* The loop with the listeners and one request, for a service with one server,
\* where the thread of update_servers is scheduled again and again: a step of
\* it that can be taken is taken.
SpecLive ==
    /\ Boot(Modes, <<S1>>, MaxOps, MaxLiveProcs, 0)
    /\ [][Next]_vars
    /\ WF_vars(LoopStep)

\* ---------------------------------------------------------------- claims
\* A step of update_servers (every one of them changes its position or locals).
LoopMoves == loop' # loop

\* The runtime dict the loop reaches through service_state[service_name].
Dict == service_state[loop.name]

\* The tick of the current service ends with this step.
TickEnds == LoopMoves /\ loop.pc \in {"probe", "nh_clear", "active"} /\ loop'.pc = "next"

\* The failover decision of a tick whose UP list is not empty.
C1_Decision ==
    (LoopMoves /\ ProbesDone /\ loop.healthy # <<>> /\ loop.mode # "round-robin"
        /\ Dict # NoEntry)
    => /\ loop'.pc \in {"announce", "next"}
       /\ (loop'.pc = "announce")
            <=> (loop.healthy[1] # st[Dict].last_active \/ ~Running(st[Dict].process))
       /\ loop'.pc = "announce" => loop'.selected = loop.healthy[1]
       /\ loop'.pc = "next" => st'[Dict].last_active = loop.healthy[1]

\* What a failover rotation starts and leaves in last_active.
C1_Restart ==
    (LoopMoves /\ loop.mode # "round-robin" /\ loop.mode # None)
    => /\ loop.pc = "popen" =>
            /\ Len(procs') = Len(procs) + 1
            /\ procs'[Len(procs')].alive
            /\ procs'[Len(procs')].to = loop.healthy[1]
       /\ (loop.pc = "active" /\ loop'.pc = "next") =>
            st'[Dict].last_active = loop.healthy[1]

\* C1: in failover mode and in every mode other than round-robin, a tick with a
\* non-empty UP list selects the first UP backend in configured order, restarts
\* the listener iff that backend differs from last_active or no listener process
\* is running, starts the new listener towards that backend, and ends with
\* last_active equal to it.
C1_FailoverTick == [][C1_Decision /\ C1_Restart]_vars

\* C1 witness: a service of mode "random" whose first backend was DOWN is routed
\* to its second backend by a second, live listener.
C1_Witness ==
    /\ loop.pc = "next"
    /\ svc[1].mode = "random"
    /\ st[1].restart_count = 2
    /\ st[1].last_active = B2
    /\ Running(st[1].process)
    /\ procs[st[1].process].to = B2

\* A failover tick rotates only if the first UP backend is not that of the
\* previous tick of the same runtime dict.
C2_Rotation ==
    (LoopMoves /\ ProbesDone /\ loop.healthy # <<>> /\ loop.mode # "round-robin"
        /\ Dict # NoEntry /\ loop'.pc = "announce")
    => prevFirst[Dict] # loop.healthy[1]

\* A failover tick with an UP backend ends with last_active the first of them.
C2_LastActive ==
    (TickEnds /\ loop.healthy # <<>> /\ loop.mode # "round-robin" /\ Dict # NoEntry)
    => st'[Dict].last_active = loop.healthy[1]

\* C2 (as claimed): in failover mode last_active is the first UP backend b0 after
\* every tick, and restart_count increases across a tick only when b0 is not the
\* first UP backend of the service's previous tick.
C2_Original == [][C2_LastActive /\ C2_Rotation]_vars

\* restart_count changes only in the rotation of a tick, by 1, and in failover
\* mode only if the selected backend was not active or no listener was running.
C2_Increase ==
    \A s \in 1..Len(st) :
        st'[s].restart_count # st[s].restart_count
        => /\ loop.pc = "announce" /\ loop'.pc = "term" /\ s = Dict
           /\ st'[s].restart_count = st[s].restart_count + 1
           /\ loop.mode # "round-robin"
                => (loop.selected # st[s].last_active \/ ~Running(st[s].process))

\* C2 (amended): in failover mode last_active is the first UP backend b0 after
\* every tick, and restart_count increases only in a tick that found b0 different
\* from last_active or found no listener process running (the listener exited or
\* edit_service terminated it), and then by exactly 1.
C2_Amended == [][C2_LastActive /\ C2_Increase]_vars

\* C2 witness: a failover tick has decided to restart although the first UP
\* backend is the one already active: the listener is no longer running.
C2_Witness ==
    /\ loop.pc = "announce"
    /\ loop.mode = "failover"
    /\ Dict # NoEntry
    /\ st[Dict].restart_count >= 1
    /\ st[Dict].last_active = loop.selected
    /\ ~Running(st[Dict].process)

\* The three steps of a tick that found no UP backend.
C3_Tick ==
    LoopMoves =>
      /\ (ProbesDone /\ loop.healthy = <<>>) =>
            /\ loop'.pc = "nh_term"
            /\ emitted' = Append(emitted, NoHealthyMsg(loop.port, loop.name))
      /\ (loop.pc = "nh_term" /\ loop'.pc = "nh_clear") =>
            /\ ~Running(st[Dict].process)'
            /\ NoHealthyMsg(loop.port, loop.name) \in Range(emitted)
      /\ (loop.pc = "nh_clear" /\ loop'.pc = "next") =>
            /\ st'[Dict].last_active = None
            /\ NoHealthyMsg(loop.port, loop.name) \in Range(emitted)
      /\ ((ProbesDone /\ loop.healthy = <<>>) \/ loop.pc \in {"nh_term", "nh_clear"}) =>
            \A s \in 1..Len(st) : /\ st'[s].restart_count = st[s].restart_count
                                  /\ st'[s].index = st[s].index

\* C3: a tick that finds no UP backend broadcasts the "No healthy servers" event
\* for its port and name, terminates the service's listener process, ends with
\* last_active none, and changes no restart_count and no rr_cursor.
C3_NoHealthyTick == [][C3_Tick]_vars

\* C3 witness: a tick without UP backend has ended for a service that had been
\* routed: its listener is dead, last_active is none, the event is out.
C3_Witness ==
    /\ loop.pc = "next"
    /\ Len(emitted) = 1 /\ emitted[1].kind = "NoHealthy"
    /\ st[1].restart_count >= 1
    /\ st[1].last_active = None
    /\ st[1].process # NoProc /\ ~Running(st[1].process)

\* A round-robin rotation selects what the run of rotations predicts.
C4_Rotation ==
    LoopMoves =>
      /\ (ProbesDone /\ loop.mode = "round-robin" /\ loop'.pc = "announce") =>
            LET r == run'[Dict]
                k == Len(r.list)
            IN  /\ r.list = loop.healthy
                /\ r.len >= 1
                /\ r.len = 1 => r.start = st[Dict].index
                /\ loop'.selected = r.list[((r.start + r.len - 1) % k) + 1]
      /\ (loop.pc = "active" /\ loop'.pc = "next" /\ loop.mode = "round-robin") =>
            st'[Dict].last_active = loop.selected

\* C4: over successive round-robin rotations that see the same UP list of k
\* backends, the i-th selected backend (i = 0, 1, ...) is healthy[(start + i) mod k]
\* where start is the rr_cursor at the first of them, whatever the ticks between
\* the rotations probed; the rotation assigns that backend to last_active.
C4_RoundRobinSequence == [][C4_Rotation]_vars

\* C4 witness: three successive rotations over the same two UP backends, so that
\* the sequence has wrapped around.
C4_Witness ==
    \E s \in 1..Len(st) :
        /\ run[s].len = 3
        /\ Len(run[s].list) = 2
        /\ st[s].last_active = run[s].list[((run[s].start + 2) % 2) + 1]
        /\ loop.pc = "next"

\* The gate of round-robin: rotate iff no listener process is running or
\* ROTATION_INTERVAL has elapsed; a skipped tick changes nothing.
C5_Gate ==
    (LoopMoves /\ ProbesDone /\ loop.healthy # <<>> /\ loop.mode = "round-robin"
        /\ Dict # NoEntry)
    => /\ loop'.pc \in {"announce", "next"}
       /\ (loop'.pc = "announce")
            <=> (~Running(st[Dict].process) \/ Elapsed(st[Dict]) >= ROTATION_INTERVAL)
       /\ loop'.pc = "next" => (st' = st /\ procs' = procs)

\* A rotation comes ROTATION_INTERVAL or more after the previous start.
C5_Apart ==
    (LoopMoves /\ ProbesDone /\ loop.mode = "round-robin" /\ loop'.pc = "announce")
    => (st[Dict].since_start = NoTime \/ st[Dict].since_start >= ROTATION_INTERVAL)

\* C5 (as claimed): a round-robin tick with a non-empty UP list rotates iff no
\* listener process is running or ROTATION_INTERVAL has elapsed since
\* last_start_time; a skipped tick leaves rr_cursor, last_active, restart_count
\* and the listener unchanged; so every rotation comes at least
\* ROTATION_INTERVAL after the previous start of the service's listener.
C5_Original == [][C5_Gate /\ C5_Apart]_vars

\* The same, for rotations decided while the previous listener still runs.
C5_ApartWhileRunning ==
    (LoopMoves /\ ProbesDone /\ loop.mode = "round-robin" /\ loop'.pc = "announce"
        /\ Running(st[Dict].process))
    => st[Dict].since_start = ROTATION_INTERVAL

\* C5 (amended): the same gate and the same skipped tick; a rotation decided
\* while the previous listener is still running comes at least
\* ROTATION_INTERVAL after last_start_time, and once the listener is no longer
\* running the next tick with an UP backend rotates at once.
C5_Amended == [][C5_Gate /\ C5_ApartWhileRunning]_vars

\* C5 witness: a round-robin tick has decided to rotate less than
\* ROTATION_INTERVAL after the previous start, the listener being dead.
C5_Witness ==
    /\ loop.pc = "announce"
    /\ loop.mode = "round-robin"
    /\ Dict # NoEntry
    /\ st[Dict].since_start = CHECK_INTERVAL
    /\ st[Dict].process # NoProc /\ ~Running(st[Dict].process)

\* No tick and no request is in progress.
Quiescent == req.pc = "idle" /\ loop.pc \in {"next", "sleep"}

\* C6: for every service, a running listener process implies a last_active that
\* is not none (equivalently: last_active none implies no running listener);
\* stated here for the states between ticks and between requests only.
C6_ListenerImpliesActive ==
    Quiescent =>
        \A n \in Names :
            (service_state[n] # NoEntry /\ Running(st[service_state[n]].process))
            => st[service_state[n]].last_active # None

\* last_active as the last step of a tick leaves it.
C7_End ==
    (TickEnds /\ Dict # NoEntry)
    => LET la == st'[Dict].last_active
       IN  \/ la = None
           \/ /\ la \in {Fmt(x) : x \in Range(svc'[loop.service].servers)}
              /\ la \in Range(loop.healthy)

\* C7: at the end of every tick, in either mode, last_active is none or a
\* backend that is in the service's servers list and was probed UP in that tick.
C7_Original == [][C7_End]_vars

\* Some runtime dict of service_state holds the process.
Referenced(p) ==
    \E n \in Names : service_state[n] # NoEntry /\ st[service_state[n]].process = p

\* C8: at most one listener process started for a service is running, and every
\* running listener process is referenced by a runtime dict of service_state
\* (except the one being stored, between Popen and the assignment).
C8_OneReferencedListener ==
    /\ \A p, q \in 1..Len(procs) :
          (procs[p].alive /\ procs[q].alive /\ procs[p].owner = procs[q].owner) => p = q
    /\ \A p \in 1..Len(procs) :
          (procs[p].alive /\ ~(loop.pc = "assign" /\ loop.proc = p)) => Referenced(p)

\* C9: once the first tick begun after an accepted edit of listen_port from p to
\* q has finished with an UP backend, no running listener of the service is bound
\* to p, the listener its runtime dict holds is bound to q if it runs, and
\* restart_count is above its value at the edit.
C9_ListenerMovesToNewPort ==
    portEdit.phase = "ticked" =>
        LET o == portEdit.service
            s == service_state[svc[o].name]
        IN  /\ \A p \in 1..Len(procs) :
                  (procs[p].alive /\ procs[p].owner = o) => procs[p].port # portEdit.old
            /\ s # NoEntry =>
                  /\ Running(st[s].process) => procs[st[s].process].port = portEdit.new
                  /\ st[s].restart_count > portEdit.rc

\* C10: no listener process started for a service is running once
\* remove_service of that service has returned ok.
C10_NoListenerAfterRemove ==
    \A p \in 1..Len(procs) : procs[p].alive => procs[p].owner \notin removed

\* One probe: whatever way the connection attempt ended, the loop goes on to the
\* next server, and the backend is in the UP list iff the attempt succeeded.
C11_ProbeStep ==
    (LoopMoves /\ loop.pc = "probe" /\ loop.j <= Len(svc[loop.service].servers))
    => /\ loop'.pc = "probe"
       /\ loop'.j = loop.j + 1
       /\ loop'.healthy = IF loop'.outcome = "connected"
                          THEN Append(loop.healthy, Fmt(svc[loop.service].servers[loop.j]))
                          ELSE loop.healthy

\* C11: for every backend and every kind of probe failure (timeout, refusal, any
\* other connect or transport error) the probe result is DOWN for that backend
\* only: the remaining backends of the tick are still probed, the UP list holds
\* exactly the backends whose probe succeeded, and the loop goes on.
C11_ProbeFailureIsDown == [][C11_ProbeStep]_vars

\* The step of a tick that performs a round-robin rotation for runtime dict s.
C12_Rotates(s) ==
    /\ LoopMoves /\ ProbesDone /\ loop.mode = "round-robin" /\ loop'.pc = "announce"
    /\ s = Dict

\* rr_cursor of every runtime dict: +1 in a round-robin rotation, else unchanged.
C12_Step ==
    /\ Len(st') >= Len(st)
    /\ \A s \in 1..Len(st) :
          st'[s].index = IF C12_Rotates(s) THEN st[s].index + 1 ELSE st[s].index

\* C12: rr_cursor of a service never decreases: no tick, UP/DOWN flap, total
\* outage, mode change, listen_port edit or rename resets or lowers it; it
\* advances by exactly 1 on each rotation performed in round-robin mode and by 0
\* in every other step.
C12_CursorNeverDecreases == [][C12_Step]_vars

\* C12 witness: a service that rotated twice in round-robin mode was then set to
\* failover by an accepted request and went through a tick without UP backend:
\* its cursor is still 2.
C12_Witness ==
    /\ loop.pc = "next"
    /\ response = "ok"
    /\ svc[1].mode = "failover"
    /\ st[1].index = 2
    /\ st[1].last_active = None
    /\ st[1].restart_count >= 2

\* The keys of server_stats of the service called name.
KeysOf(name) == {ServerKey(name, ip, port) : ip \in Ips, port \in ServerPorts}

\* This step returns the response of a request.
Returns == response' # "pending" /\ (response = "pending" \/ ops' # ops)

\* No backend-level entry of a service whose remove_service has just returned ok
\* (its service-level counters are gone with its runtime dict).
C16_NoStatsAfterRemove ==
    (asked.op = "remove_service" /\ response = "ok")
    => /\ service_state[asked.name] = NoEntry
       /\ DOMAIN server_stats \cap KeysOf(asked.name) = {}

\* The counters of a service and of a server that have just been added are zero.
C16_AddedAtZero ==
    (Returns /\ response' = "ok")
    => /\ asked'.op = "add_service" =>
            LET s == st'[service_state'[asked'.name]]
            IN  s.bytes_transferred = 0 /\ s.bytes_out = 0 /\ s.bytes_in = 0
       /\ asked'.op = "add_server" =>
            LET c == server_stats'[ServerKey(asked'.name, asked'.ip, asked'.port)]
            IN  c.bytes_transferred = 0 /\ c.bytes_out = 0 /\ c.bytes_in = 0

\* C16: after remove_service(name) has returned ok no service-level and no
\* backend-level stats entry of that service exists, and the counters of a
\* service and of its backends that are added (again) start at zero.
C16_StatsPurged == []C16_NoStatsAfterRemove /\ [][C16_AddedAtZero]_vars

\* C17: whenever no request is in progress, the names of the services are
\* pairwise distinct and, within each service, the (ip, port) pairs of its
\* servers are pairwise distinct.
C17_Unique ==
    req.pc = "idle" =>
        /\ \A i, j \in 1..Len(SERVICES) :
              svc[SERVICES[i]].name = svc[SERVICES[j]].name => i = j
        /\ \A i \in 1..Len(SERVICES) :
              LET servers == svc[SERVICES[i]].servers IN
              \A a, b \in 1..Len(servers) :
                  (servers[a].ip = servers[b].ip /\ servers[a].port = servers[b].port)
                  => a = b

\* What reloading the file gives is the list of services in memory.
C18_Reloaded ==
    LET loaded == load_config(disk') IN
    /\ Len(loaded) = Len(SERVICES')
    /\ \A i \in 1..Len(loaded) :
          LET service == svc'[SERVICES'[i]] IN
          /\ loaded[i].name = service.name
          /\ loaded[i].listen_port = service.listen_port
          /\ loaded[i].mode = service.mode
          /\ loaded[i].servers = service.servers

\* C18: when an accepted mutation (add, edit or remove of a service or of a
\* server, set_service_mode) returns, the persisted config is the list of
\* services in memory: the same services in the same order with the same name,
\* listen_port, mode and servers. (Requests are handled one at a time.)
C18_Persisted == [][(Returns /\ response' = "ok") => C18_Reloaded]_vars

\* C18 witness: three accepted mutations later (a rename, a second service, a
\* third server) the file holds what memory holds.
C18_Witness ==
    /\ req.pc = "idle" /\ response = "ok" /\ ops = 0
    /\ Len(SERVICES) = 2
    /\ svc[1].name = "B"
    /\ Len(svc[1].servers) = 3
    /\ Len(disk) = 2 /\ disk[1].name = "B" /\ Len(disk[1].servers) = 3

\* An add_server request: accepted iff all four conditions hold, and without
\* any effect when rejected.
C19_Step ==
    (Returns /\ asked'.op = "add_server")
    => LET a == asked'
           o == Find(a.name)
       IN  /\ (response' = "ok")
                <=> /\ o # 0
                    /\ ip_address(a.ip)
                    /\ a.port >= 1 /\ a.port <= 65535
                    /\ \A i \in 1..Len(svc[o].servers) :
                          ~(svc[o].servers[i].ip = a.ip /\ svc[o].servers[i].port = a.port)
           /\ response' = "ok" =>
                \E i \in 1..Len(svc'[o].servers) :
                    svc'[o].servers[i].ip = a.ip /\ svc'[o].servers[i].port = a.port
           /\ response' # "ok" =>
                /\ response' \in {"NotFound", "Invalid", "Conflict"}
                /\ svc' = svc /\ SERVICES' = SERVICES
                /\ server_stats' = server_stats
                /\ disk' = disk

\* C19: add_server is accepted iff the service exists, the ip parses as an IP
\* address, 1 <= port <= 65535 and (ip, port) is not yet in the service; every
\* rejected add_server (NotFound, Validation, Conflict) leaves the servers, the
\* stats registry and the persisted config unchanged.
C19_AddServer == [][C19_Step]_vars

\* C19 witness: an add_server with port 65535 has been accepted after one with
\* the same ip was rejected or accepted before it; the server is in the service.
C19_Witness ==
    /\ asked.op = "add_server" /\ asked.port = 65535 /\ response = "ok"
    /\ Find(asked.name) # 0
    /\ ServerPos(svc[Find(asked.name)].servers, asked.ip, 65535) = 3

\* The three counters of a dict.
Counters == {"bytes_transferred", "bytes_out", "bytes_in"}

\* C13: in every reachable state, for every runtime dict of a service and every
\* entry of server_stats, bytes_transferred equals bytes_in + bytes_out,
\* whatever counted lines (outbound, inbound or without marker) have been read.
C13_TotalIsInPlusOut ==
    /\ \A s \in 1..Len(st) :
          st[s].bytes_transferred = st[s].bytes_in + st[s].bytes_out
    /\ \A k \in DOMAIN server_stats :
          server_stats[k].bytes_transferred = server_stats[k].bytes_in + server_stats[k].bytes_out

\* Every counter holds the sum of the lengths counted into it.
C14_Sums ==
    /\ \A s \in 1..Len(st), c \in Counters : st[s][c] = counted.service[s][c]
    /\ \A k \in DOMAIN server_stats, c \in Counters :
          server_stats[k][c] = counted.keys[k][c]

\* No counter decreases while its dict exists.
C14_Monotone ==
    /\ \A s \in 1..Len(st), c \in Counters : st'[s][c] >= st[s][c]
    /\ \A k \in DOMAIN server_stats \cap DOMAIN server_stats', c \in Counters :
          server_stats'[k].gen = server_stats[k].gen
          => server_stats'[k][c] >= server_stats[k][c]

\* C14: increments are atomic per counter: with several reader threads of one
\* service counting at once (that of a terminated listener and that of its
\* replacement) no increment is lost, each counter equals the sum of the
\* lengths counted into it, and no counter decreases while its key exists.
C14_AtomicIncrements == []C14_Sums /\ [][C14_Monotone]_vars

\* C15: once remove_server(s, ip, p) has returned ok, server_stats has no entry
\* under the key s:ip:p (for as long as no other request has come in), also
\* while the reader thread of a listener to that backend goes on counting.
C15_KeyStaysAbsent ==
    (asked.op = "remove_server" /\ response = "ok")
    => ServerKey(asked.name, asked.ip, asked.port) \notin DOMAIN server_stats

\* How often message b was sent to websocket w.
Times(w, b) == Cardinality({k \in 1..Len(websockets'[w].msgs) : websockets'[w].msgs[k] = b})

\* A broadcast ends: each websocket that was in the list when it began, is
\* still in the list and still has its peer, was sent the message once.
C20_End ==
    \A b \in 1..Len(broadcasts) :
        (~broadcasts[b].done /\ broadcasts'[b].done)
        => \A w \in broadcasts[b].start :
              (w \in Range(active_connections') /\ websockets'[w].open) => Times(w, b) = 1

\* C20: every broadcast message is delivered exactly once to every subscriber
\* that is subscribed for the whole duration of the broadcast, also when the
\* send to another subscriber fails or another subscriber disconnects while the
\* broadcast is in progress.
C20_DeliveredOnce == [][C20_End]_vars

\* The run has started as many listeners as it may: the loop stops at its next
\* rotation, for no reason of the code.
Capped == Len(procs) >= limits.listeners

\* The exception of a probe has ended the thread (C11).
ProbeRaised == loop.pc = "crashed" /\ loop.outcome # None

\* C21: the reconcile loop never stops: whatever remove_service, edit_service,
\* add_server or remove_server call runs during a tick, the loop completes the
\* tick and comes to the end of a pass over SERVICES again and again (here:
\* unless the run has used up its listeners or a probe has raised).
C21_LoopNeverStops == []<>(loop.pc = "sleep" \/ Capped \/ ProbeRaised)

\* The return of an edit_service with one of its errors: raised by the lookup
\* or by the check of new_name, it is the first step of the handler; raised
\* later, the service is compared with what the handler found.
C22_Return ==
    (Returns /\ asked'.op = "edit_service"
        /\ response' \in {"NotFound", "Conflict", "Invalid"})
    => IF req.pc = "idle"
       THEN UNCHANGED <<SERVICES, svc, st, service_state, procs, disk>>
       ELSE LET o == before.service IN
            /\ svc'[o].name = before.name
            /\ svc'[o].listen_port = before.listen_port
            /\ svc'[o].mode = before.mode
            /\ ~before.touched
            /\ disk' = before.file

\* C22: an edit_service call that returns an error (NotFound, AlreadyExists for
\* a colliding new_name, Invalid for a mode outside failover and round-robin)
\* leaves the name, the listen_port and the mode of the service, its listener
\* process and last_active, and the persisted config unchanged, whatever
\* new_name, listen_port and mode the request carried.
C22_ErrorLeavesUnchanged == [][C22_Return]_vars

\* The sum of restart_count over the first n runtime dicts.
RECURSIVE RestartCounts(_)
RestartCounts(n) == IF n = 0 THEN 0 ELSE st[n].restart_count + RestartCounts(n - 1)

\* Outside the statements between "restart_count += 1" and Popen, as many
\* listeners have been started as the restart_counts say.
C23_Counts == loop.pc \notin {"term", "popen"} => RestartCounts(Len(st)) = Len(procs)

\* The steps of a rotation, from the broadcast to last_active.
C23_Rotation ==
    LoopMoves =>
      /\ loop.pc = "announce" =>
            /\ emitted' = Append(emitted, RoutingMsg(loop.port, loop.selected,
                                                      loop.name, loop.mode))
            /\ Dict # NoEntry
            /\ st'[Dict].restart_count = st[Dict].restart_count + 1
            /\ st'[Dict].since_start = 0
      /\ loop.pc = "popen" =>
            /\ ~Running(st[loop.service].process)
            /\ Len(procs') = Len(procs) + 1
      /\ loop.pc = "active" =>
            /\ Dict # NoEntry
            /\ st'[Dict].last_active = loop.selected
            /\ emitted' = <<RoutingMsg(loop.port, loop.selected, loop.name, loop.mode)>>

\* Outside a rotation no restart_count, last_start_time or rr_cursor changes,
\* and a tick that ends without one has broadcast no Routing event.
C23_NoRotation ==
    /\ \A s \in 1..Len(st) :
          /\ st'[s].restart_count # st[s].restart_count
                => loop.pc = "announce" /\ s = Dict
          /\ (st'[s].since_start = 0 /\ st[s].since_start # 0)
                => loop.pc = "announce" /\ s = Dict
          /\ st'[s].index # st[s].index
                => /\ ProbesDone /\ loop'.pc = "announce" /\ s = Dict
                   /\ st'[s].index = st[s].index + 1
    /\ (TickEnds /\ loop.pc # "active")
          => \A i \in 1..Len(emitted') : emitted'[i].kind # "Routing"

\* C23: restart_count counts listener starts exactly: each rotation terminates
\* the previous listener (if running) before the new one is started, increments
\* restart_count by exactly 1, sets last_start_time, sets last_active to the
\* selected backend and broadcasts exactly one Routing event; a tick that does
\* not rotate changes none of restart_count, last_start_time and rr_cursor and
\* broadcasts no Routing event.
C23_RestartCountFrame == []C23_Counts /\ [][C23_Rotation /\ C23_NoRotation]_vars
====
